---- MODULE Spec2Model ----
(***************************************************************************)
(* Model of eqtprob_eventdetect (src/src/event_detection.py): the forward  *)
(* scan that turns per-station detection-probability segments into         *)
(* non-overlapping event windows.                                          *)
(*                                                                         *)
(* Times are integers; the sample interval dt_EQT is one unit of time,     *)
(* and two units where stations sample between the samples of others.  The *)
(* detection probabilities are the levels ProbLevels and d_thrd is one of  *)
(* DThrdLevels.  Sample indices are 0-based as in the source; a station is *)
(* named by its place in the sorted list of the station folders.           *)
(***************************************************************************)
EXTENDS Integers, Sequences, FiniteSets, TLC

\* ---- program constants ---------------------------------------------------
\* line 75: the sample interval, as a number of units of time
dt_unit == 1
None == -100

\* ---- bounds of the model -----------------------------------------------
\* the number of samples of a segment (6000 in the source)
data_size_EQT == 3
\* the longest extension twlex of the time window, in samples
MaxTwlex == 2

\* ---- the inputs that are enumerated -----------------------------------------
\* the station folders, sorted (line 87)
dirnames == <<"STA1_outputs", "STA2_outputs">>
NSta == Len(dirnames)
\* at most one station has a second segment
MaxSegTotal == NSta + 1
\* the start times of the segments
StartTimes == {0, 1}
\* the detection probabilities and the thresholds
ProbLevels == {0, 1}
DThrdLevels == {1}
\* sttd_max in samples, even: spttdf_ssmax is left to its default, half of it
SttdValues == {0, 2}

\* the events that are followed; a scan that moves forward at every search
\* has fewer, one per sample time at most
MaxEvents == 2 * data_size_EQT
\* line 77: the number of passes as it is set
N_tit_set == 1

VARIABLES
    files,         \* files[i]: the probability file of the i-th station folder
    db,            \* db[sta]: sequence of segments [start, prob]
    dsg_sttmin,    \* earliest starttime of the segments
    dsg_sttmax,    \* latest endtime of the segments
    cfg,           \* sttd_max, twlex, d_thrd, nsta_thrd, spttdf_ssmax
    pc,            \* position in eqtprob_eventdetect
    tt1, tt2,      \* searched time range
    tts, ttd,      \* data extraction range of the current pass (None if unset)
    tts_sta, ttd_sta,  \* per-station refined start / end
    nsta_trig,     \* number of stations triggered in the current pass
    ttd_previous,  \* end of the previous data output
    ista,          \* index of the station in stanames
    todo,          \* remaining covering segment indices of the station
    station_triggered,
    prob_det_max,
    events,        \* finalized events, in order
    outputs,       \* slices handed to vector2trace for the current event
    cursor,        \* tt1 at the last test of the while loop
    itit,          \* index of the pass over the stations
    searched,      \* the searched ranges [tt1, tt2] that were left
    first,         \* the events of the call before, for the call with the
                   \* station folders in another order
    seen           \* the segments of the station that had a detection so far

vars == <<first, searched, itit, files, db, dsg_sttmin, dsg_sttmax, cfg, pc, tt1, tt2, tts, ttd, tts_sta, ttd_sta, nsta_trig,
          ttd_previous, ista, todo, station_triggered, prob_det_max,
          events, outputs, cursor, seen>>

\* line 75: the sample interval
dt_EQT == cfg.dt_EQT
\* line 76: the length of a segment, its endtime minus its starttime
data_sglength == (data_size_EQT - 1) * dt_EQT

\* line 119: the stations that were loaded, in the order of their folders
stanames == DOMAIN db

\* ---- helpers -------------------------------------------------------------
MinOf(S) == CHOOSE x \in S : \A y \in S : x <= y
MaxOf(S) == CHOOSE x \in S : \A y \in S : x >= y
Min2(a, b) == IF a <= b THEN a ELSE b
Max2(a, b) == IF a >= b THEN a ELSE b
Abs(x) == IF x < 0 THEN -x ELSE x
DictSet(d, k, v) == [s \in (DOMAIN d) \cup {k} |-> IF s = k THEN v ELSE d[s]]
EmptyDict == [s \in {} |-> 0]

\* ---- the loaded store -----------------------------------------------------
Indices == 0..(data_size_EQT - 1)
data_times(seg, i) == seg.start + i * dt_EQT
data_probD(seg, i) == seg.prob[i + 1]
dsg_endtime(seg) == seg.start + data_sglength

AllSegs(d) == UNION {{d[s][k] : k \in 1..Len(d[s])} : s \in DOMAIN d}
\* lines 101-109: the earliest starttime and the latest endtime of a store
sttmin(d) == MinOf({sg.start : sg \in AllSegs(d)})
sttmax(d) == MaxOf({dsg_endtime(sg) : sg \in AllSegs(d)})

\* variant: segments of sta that overlap the period [t1, t2]
dindx_overlap(sta, t1, t2) ==
    {k \in 1..Len(db[sta]) : db[sta][k].start <= t2 /\ dsg_endtime(db[sta][k]) >= t1}
\* dindx: segments of sta that include the whole period [t1, t2]
dindx(sta, t1, t2) ==
    {k \in 1..Len(db[sta]) : db[sta][k].start <= t1 /\ dsg_endtime(db[sta][k]) >= t2}

\* ---- refinement of one segment against [t1, t2] (lines 177-258) ----------
sttd_max == cfg.sttd_max
twlex == cfg.twlex
d_thrd == cfg.d_thrd
nsta_thrd == cfg.nsta_thrd
spttdf_ssmax == cfg.spttdf_ssmax
\* line 77: the number of passes over the stations for one searched range
N_tit == cfg.N_tit

\* variant: a probability equal to d_thrd is not a detection
AboveThrd_strict(p) == p > d_thrd
\* a sample is a detection iff its probability is >= d_thrd
AboveThrd(p) == p >= d_thrd

data_pdindex(seg, t1, t2) ==
    {i \in Indices : data_times(seg, i) >= t1 /\ data_times(seg, i) <= t2}
detecid(seg, t1, t2) ==
    {i \in data_pdindex(seg, t1, t2) : AboveThrd(data_probD(seg, i))}
dprobD_max(seg, t1, t2) ==
    MaxOf({data_probD(seg, i) : i \in data_pdindex(seg, t1, t2)})

\* variant: at the first sample of the segment the start is extended by
\* twlex, as it is anywhere else
tts_temp_twlex(seg, t1, t2) ==
    LET idfirst == MinOf(data_pdindex(seg, t1, t2))
    IN  IF AboveThrd(data_probD(seg, idfirst)) /\ idfirst > 0
           /\ AboveThrd(data_probD(seg, idfirst - 1))
        THEN LET ddinx == {i \in 0..(idfirst - 1) : ~AboveThrd(data_probD(seg, i))}
             IN  IF ddinx # {}
                 THEN data_times(seg, MaxOf(ddinx) + 1) - twlex
                 ELSE data_times(seg, 0) - twlex
        ELSE IF AboveThrd(data_probD(seg, idfirst)) /\ idfirst = 0
        THEN data_times(seg, 0) - twlex
        ELSE data_times(seg, MinOf(detecid(seg, t1, t2))) - twlex
\* lines 188, 191-208: the start of the detection of the segment
tts_temp(seg, t1, t2) ==
    LET idfirst == MinOf(data_pdindex(seg, t1, t2))
    IN  IF AboveThrd(data_probD(seg, idfirst)) /\ idfirst > 0
           /\ AboveThrd(data_probD(seg, idfirst - 1))
        THEN LET ddinx == {i \in 0..(idfirst - 1) : ~AboveThrd(data_probD(seg, i))}
             IN  IF ddinx # {}
                 THEN data_times(seg, MaxOf(ddinx) + 1) - twlex
                 ELSE data_times(seg, 0) - spttdf_ssmax
        ELSE IF AboveThrd(data_probD(seg, idfirst)) /\ idfirst = 0
        THEN data_times(seg, 0) - spttdf_ssmax
        ELSE data_times(seg, MinOf(detecid(seg, t1, t2))) - twlex

\* variant: the end is taken at the last sample of the searched range, not
\* at the last detection in it
ttd_temp_idlast(seg, t1, t2) ==
    LET idlast == MaxOf(data_pdindex(seg, t1, t2))
        last == data_size_EQT - 1
    IN  IF AboveThrd(data_probD(seg, idlast)) /\ idlast < last
           /\ AboveThrd(data_probD(seg, idlast + 1))
        THEN LET below == {i \in (idlast + 1)..last : ~AboveThrd(data_probD(seg, i))}
                 ddinx == IF below = {} THEN 0 ELSE MinOf(below) - (idlast + 1)
             IN  IF ddinx > 0
                 THEN data_times(seg, idlast + ddinx) + twlex
                 ELSE data_times(seg, last) + spttdf_ssmax
        ELSE IF AboveThrd(data_probD(seg, idlast)) /\ idlast = last
        THEN data_times(seg, last) + spttdf_ssmax
        ELSE data_times(seg, idlast) + twlex
\* lines 189, 240-258: the end of the detection of the segment
ttd_temp(seg, t1, t2) ==
    LET idlast == MaxOf(data_pdindex(seg, t1, t2))
        last == data_size_EQT - 1
    IN  IF AboveThrd(data_probD(seg, idlast)) /\ idlast < last
           /\ AboveThrd(data_probD(seg, idlast + 1))
        THEN LET below == {i \in (idlast + 1)..last : ~AboveThrd(data_probD(seg, i))}
                 ddinx == IF below = {} THEN 0 ELSE MinOf(below) - (idlast + 1)
             IN  IF ddinx > 0
                 THEN data_times(seg, idlast + ddinx) + twlex
                 ELSE data_times(seg, last) + spttdf_ssmax
        ELSE IF AboveThrd(data_probD(seg, idlast)) /\ idlast = last
        THEN data_times(seg, last) + spttdf_ssmax
        ELSE data_times(seg, MaxOf(detecid(seg, t1, t2))) + twlex

\* ---- one covering segment with a detection (lines 180-284) ---------------
\* variant: the start is not held back at the end of the previous output
ClampStart_unclamped(t) == t
\* lines 218-219, 227-228: not earlier than the end of the previous output
ClampStart(t) == IF t < ttd_previous THEN ttd_previous ELSE t
\* variant: the end is not held back at the latest endtime
ClampEnd_unclamped(t) == t
\* lines 235-236, 268-269, 276-277, 281-282: not later than the latest endtime
ClampEnd(t) == IF t > dsg_sttmax THEN dsg_sttmax ELSE t

\* variant: the start of the extraction follows the latest station
NewStart_last(old, s) == s
\* lines 222-225: the earliest start of the stations so far
NewStart(old, s) == IF old # None THEN Min2(old, s) ELSE s
\* variant: the end of the extraction follows the latest station
NewEnd_last(old, e) == e
\* lines 272-275: the latest end of the stations so far
NewEnd(old, e) == IF old # None THEN Max2(old, e) ELSE e
\* variant: a segment of equal probability replaces the kept one
Replaces_ontie(p) == p >= prob_det_max
\* lines 212, 261: the segment replaces the kept one of the station
Replaces(p) == p > prob_det_max
\* variant: every segment with a detection counts
NewCount_persegment == nsta_trig + 1
\* lines 183-185: a station counts once, at its first segment with a detection
NewCount == IF station_triggered THEN nsta_trig ELSE nsta_trig + 1

\* The values of the scan state after the body of `if detecid.any()` for the
\* segment seg of station sta; err marks the KeyError of line 218.
Refine(sta, seg) ==
    LET W       == sttd_max + twlex
        pmax    == dprobD_max(seg, tt1, tt2)
        kept    == Replaces(pmax)
        err     == ~kept /\ sta \notin DOMAIN tts_sta
        s1      == IF kept THEN tts_temp(seg, tt1, tt2) ELSE tts_sta[sta]
        s2      == ClampStart(s1)
        ts1     == NewStart(tts, s2)
        ts2     == ClampStart(ts1)
        w1      == IF ts2 > tt1 THEN ts2 + W ELSE tt1 + W
        w2      == ClampEnd(w1)
        e1      == IF kept THEN ttd_temp(seg, tt1, tt2) ELSE ttd_sta[sta]
        e2      == ClampEnd(e1)
        td1     == NewEnd(ttd, e2)
        td2     == ClampEnd(td1)
        w3      == ClampEnd(Max2(w2, td2))
    IN  IF err
        THEN [err |-> TRUE, kept |-> kept, tts_sta |-> tts_sta, ttd_sta |-> ttd_sta,
              tts |-> tts, ttd |-> ttd, tt2 |-> tt2, prob_det_max |-> prob_det_max]
        ELSE [err |-> FALSE, kept |-> kept,
              tts_sta |-> DictSet(tts_sta, sta, s2),
              ttd_sta |-> DictSet(ttd_sta, sta, e2),
              tts |-> ts2, ttd |-> td2, tt2 |-> w3,
              prob_det_max |-> IF kept THEN pmax ELSE prob_det_max]

\* line 144: the pass is the last of the searched range
LastPass == itit + 1 >= N_tit
\* variant: strictly more than nsta_thrd stations are required
EnoughStations_strict == nsta_trig > nsta_thrd
\* line 297 (and 291): enough stations triggered
EnoughStations == nsta_trig >= nsta_thrd
\* variant: a pass without output also moves the end of the previous output
KeptPrevious_ttd == IF ttd # None THEN ttd ELSE ttd_previous
\* lines 297, 363-364: ttd_previous is assigned under the test of line 297
\* only; a pass without output leaves it
KeptPrevious == ttd_previous
\* variant: the end of the searched range is remembered instead
NewPrevious_tt2 == tt2
\* variant: the end of the previous output stays where it was
NewPrevious_kept == ttd_previous
\* variant: the start of this output is remembered instead of its end
NewPrevious_start == tts
\* line 364: the end of this output becomes the end of the previous output
NewPrevious == ttd
\* variant: the next search starts at the end itself, without the step dt_EQT
NewCursor_nostep == IF ttd # None THEN ttd ELSE tt2
\* variant: the next search skips one more sample
NewCursor_twostep == IF ttd # None THEN ttd + 2 * dt_EQT ELSE tt2 + 2 * dt_EQT
\* variant: the next search always starts after the searched range
NewCursor_tt2 == tt2 + dt_EQT
\* lines 366-370: the starttime of the next search
NewCursor == IF ttd # None THEN ttd + dt_EQT ELSE tt2 + dt_EQT

\* ---- the emitter's choice of segment for one station (lines 310-329) ------
\* variant: every station is centred on the extraction
tt_mid2_extraction(sta) == tts + ttd
\* lines 311-317: twice tt_mid, the midpoint of the station's own detection
\* if it has one, of the extraction if not
tt_mid2(sta) ==
    IF sta \in DOMAIN tts_sta THEN tts_sta[sta] + ttd_sta[sta] ELSE tts + ttd
\* line 323: twice the distance between the midpoint of segment k and tt_mid
mdtimesdf2(sta, k) == Abs(2 * db[sta][k].start + data_sglength - tt_mid2(sta))
data_sgindex(sta) ==
    LET cov == dindx(sta, tts, ttd)
    IN  CHOOSE k \in cov :
            \A j \in cov : \/ mdtimesdf2(sta, k) < mdtimesdf2(sta, j)
                           \/ (mdtimesdf2(sta, k) = mdtimesdf2(sta, j) /\ k <= j)

\* variant: only the stations that triggered are output
HasOutput_triggered(sta) == sta \in DOMAIN tts_sta /\ dindx(sta, tts, ttd) # {}
\* lines 317-318: a station is output if it has a segment that includes the
\* whole of [tts, ttd], whether it triggered or not
HasOutput(sta) == dindx(sta, tts, ttd) # {}

\* ---- initial states: the loaded store and the configuration --------------
ProbSet == [1..data_size_EQT -> ProbLevels]
SegSet == [start : StartTimes, prob : ProbSet]
\* the segments of a station are stored in the order of their names, which
\* end with the start time: ascending, distinct start times
SegsOfLen(n) == {sq \in [1..n -> SegSet] :
                    \A i \in 1..(n - 1) : sq[i].start < sq[i + 1].start}
TotalSegs(d) == IF NSta = 0 THEN 0
                ELSE LET RECURSIVE Sum(_)
                         Sum(n) == IF n = 0 THEN 0 ELSE Len(d[n]) + Sum(n - 1)
                     IN  Sum(NSta)
DbSet == {d \in [1..NSta -> UNION {SegsOfLen(n) : n \in 1..(MaxSegTotal - NSta + 1)}] :
              /\ TotalSegs(d) <= MaxSegTotal
              /\ \E s \in 1..NSta : d[s][1].start = 0}
\* lines 19, 67-68: the arguments of the call; spttdf_ssmax = 0.5*sttd_max
CfgSet == {[sttd_max |-> h, twlex |-> w, d_thrd |-> d, nsta_thrd |-> n,
            spttdf_ssmax |-> h \div 2, N_tit |-> N_tit_set, dt_EQT |-> dt_unit] :
              h \in SttdValues, w \in 0..MaxTwlex, d \in DThrdLevels, n \in 1..NSta}

\* lines 85-132: the state in which the scan starts, for the store d that
\* was loaded and the arguments c
Loaded(d, c) ==
    /\ cfg = c
    /\ db = d
    /\ dsg_sttmin = sttmin(db)
    /\ dsg_sttmax = sttmax(db)
    /\ pc = "while"
    /\ itit = 0
    /\ searched = {}
    /\ first = [done |-> FALSE, events |-> <<>>]
    /\ tt1 = dsg_sttmin
    /\ ttd_previous = dsg_sttmin
    /\ cursor = dsg_sttmin
    /\ tt2 = dsg_sttmin
    /\ tts = None /\ ttd = None
    /\ tts_sta = EmptyDict /\ ttd_sta = EmptyDict
    /\ nsta_trig = 0
    /\ ista = 1
    /\ todo = {}
    /\ station_triggered = FALSE
    /\ prob_det_max = 0
    /\ events = <<>>
    /\ outputs = <<>>
    /\ seen = <<>>
    /\ files = [i \in DOMAIN db |-> [ok |-> TRUE, segs |-> db[i]]]

Init == \E d \in DbSet, c \in CfgSet : Loaded(d, c)

\* ---- a station with two segments ----------------------------------------------
\* probabilities with one run of one level, of two levels >= d_thrd
RunProbSet(levels) ==
    {[i \in 1..data_size_EQT |-> IF a <= i /\ i <= b THEN p ELSE 0] :
        a \in 1..data_size_EQT, b \in 1..data_size_EQT, p \in levels}
TwoLevels == ProbLevels \cup {MaxOf(ProbLevels) + 1}
\* the first station has two segments, one sample apart; the other station
\* has one segment, which starts with the first or after the second
TwoSegDbSet ==
    {<< <<[start |-> 0, prob |-> p1], [start |-> dt_unit, prob |-> p2]>>,
        <<[start |-> s, prob |-> p3]>> >> :
        p1 \in RunProbSet(TwoLevels), p2 \in RunProbSet(TwoLevels),
        p3 \in RunProbSet(ProbLevels), s \in {0, 2 * dt_unit}}
\* spttdf_ssmax is given in the call, not left to its default
TwoSegCfgSet == {[sttd_max |-> h, twlex |-> w, d_thrd |-> d, nsta_thrd |-> n,
                  spttdf_ssmax |-> p, N_tit |-> N_tit_set, dt_EQT |-> dt_unit] :
                    h \in 0..dt_unit, w \in {0, MaxTwlex}, d \in DThrdLevels,
                    n \in 1..NSta, p \in {0, 2 * dt_unit}}
TwoSegInit == \E d \in TwoSegDbSet, c \in TwoSegCfgSet : Loaded(d, c)

\* ---- stations that sample between the samples of others ---------------------
\* line 98: the starttimes are read from the names of the segments, to the
\* microsecond; the sample interval is two units, so that the second
\* station may sample half an interval after the first
OffDbSet ==
    {<< <<[start |-> 0, prob |-> p1]>>, <<[start |-> s, prob |-> p2]>> >> :
        p1 \in ProbSet, p2 \in ProbSet, s \in 0..(2 * dt_unit)}
OffCfgSet == {[sttd_max |-> h, twlex |-> w, d_thrd |-> d, nsta_thrd |-> n,
               spttdf_ssmax |-> h \div 2, N_tit |-> N_tit_set,
               dt_EQT |-> 2 * dt_unit] :
                 h \in SttdValues, w \in 0..MaxTwlex, d \in DThrdLevels,
                 n \in 1..NSta}
OffInit == \E d \in OffDbSet, c \in OffCfgSet : Loaded(d, c)

\* ---- more than one pass per searched range ----------------------------------
\* line 77: "should be 1, 2, 3": the values above the one that is set
TitCfgSet == {[sttd_max |-> h, twlex |-> w, d_thrd |-> d, nsta_thrd |-> n,
               spttdf_ssmax |-> h \div 2, N_tit |-> t, dt_EQT |-> dt_unit] :
                 h \in SttdValues, w \in 0..MaxTwlex, d \in DThrdLevels,
                 n \in 1..NSta, t \in {N_tit_set + 1, N_tit_set + 2}}
TitInit == \E d \in DbSet, c \in TitCfgSet : Loaded(d, c)

\* ---- the scenario of five stations ------------------------------------------
\* five station folders, of which as many as the default of nsta_thrd carry
\* the run; every station has one segment
ScenNames == <<"A_outputs", "B_outputs", "C_outputs", "D_outputs", "E_outputs">>
nsta_thrd_default == 3
\* the times of the samples of the run that are >= d_thrd: the segment that
\* starts at 0, without its first and its last sample
ScenRun == {t \in 0..((data_size_EQT - 1) * dt_unit) :
                t > 0 /\ t < (data_size_EQT - 1) * dt_unit}
\* the segment of a station that carries the run, and of one that does not
ScenCarrier == [start |-> 0,
                prob |-> [i \in 1..data_size_EQT |->
                             IF (i - 1) * dt_unit \in ScenRun THEN 1 ELSE 0]]
ScenSilent(s) == [start |-> s, prob |-> [i \in 1..data_size_EQT |-> 0]]
\* the segment of a station without the run starts anywhere that keeps the
\* first sample of the run inside it
ScenDbSet ==
    {d \in [1..Len(ScenNames) -> {<<ScenCarrier>>} \cup {<<ScenSilent(s)>> : s \in 0..dt_unit}] :
        Cardinality({i \in 1..Len(ScenNames) : d[i] = <<ScenCarrier>>}) = nsta_thrd_default}
ScenCfgSet == {[sttd_max |-> h, twlex |-> w, d_thrd |-> d,
                nsta_thrd |-> nsta_thrd_default, spttdf_ssmax |-> h \div 2, N_tit |-> N_tit_set, dt_EQT |-> dt_unit] :
                  h \in SttdValues, w \in 0..MaxTwlex, d \in DThrdLevels}
ScenInit == \E d \in ScenDbSet, c \in ScenCfgSet : Loaded(d, c)

\* ---- the call before the store is loaded -------------------------------------
\* the probability file of a station folder: it is missing or unreadable
\* (ok = FALSE), or it holds no segment, or one segment
FileSet == {[ok |-> FALSE, segs |-> <<>>], [ok |-> TRUE, segs |-> <<>>]}
               \cup {[ok |-> TRUE, segs |-> <<sg>>] : sg \in SegSet}
FaultFiles == [1..NSta -> FileSet]
\* the arguments, with thresholds that are no thresholds: d_thrd = 0 and
\* nsta_thrd = 0
FaultCfgSet == {[sttd_max |-> h, twlex |-> w, d_thrd |-> d, nsta_thrd |-> n,
                 spttdf_ssmax |-> h \div 2, N_tit |-> N_tit_set, dt_EQT |-> dt_unit] :
                   h \in SttdValues, w \in {0, MaxTwlex},
                   d \in {0} \cup DThrdLevels, n \in 0..NSta}
\* lines 19-84: the call, before the loop over the station folders
FaultInit ==
    /\ files \in FaultFiles
    /\ cfg \in FaultCfgSet
    /\ pc = "load"
    /\ itit = 0
    /\ searched = {}
    /\ first = [done |-> FALSE, events |-> <<>>]
    /\ db = <<>>
    /\ dsg_sttmin = None /\ dsg_sttmax = None
    /\ tt1 = None /\ tt2 = None /\ ttd_previous = None /\ cursor = None
    /\ tts = None /\ ttd = None
    /\ tts_sta = EmptyDict /\ ttd_sta = EmptyDict
    /\ nsta_trig = 0
    /\ ista = 1
    /\ todo = {}
    /\ station_triggered = FALSE
    /\ prob_det_max = 0
    /\ events = <<>>
    /\ outputs = <<>>
    /\ seen = <<>>

\* the folders whose file cannot be loaded: h5py.File raises (line 96), or
\* min() of no starttime raises (lines 102-105)
Unloadable == {i \in DOMAIN files : ~files[i].ok \/ files[i].segs = <<>>}
\* lines 85-132: load the files in the order of the folders; the first one
\* that cannot be loaded ends the call with its exception
Load ==
    /\ pc = "load"
    /\ LET n == IF Unloadable = {} THEN Len(files) ELSE MinOf(Unloadable) - 1
           d == [i \in 1..n |-> files[i].segs]
       IN  /\ db' = d
           /\ dsg_sttmin' = IF n = 0 THEN None ELSE sttmin(d)
           /\ dsg_sttmax' = IF n = 0 THEN None ELSE sttmax(d)
           /\ IF Unloadable = {}
              THEN /\ tt1' = sttmin(d) /\ tt2' = sttmin(d)
                   /\ ttd_previous' = sttmin(d) /\ cursor' = sttmin(d)
                   /\ pc' = "while"
              ELSE /\ pc' = "error"
                   /\ UNCHANGED <<tt1, tt2, ttd_previous, cursor>>
    /\ UNCHANGED <<first, searched, itit, files, cfg, tts, ttd, tts_sta, ttd_sta, nsta_trig, ista, todo,
                   station_triggered, prob_det_max, events, outputs, seen>>

\* ---- the scan ---------------------------------------------------------------
\* lines 133-155: the while test holds; seed the search window, reset the pass
Seed ==
    /\ pc = "while" /\ tt1 <= dsg_sttmax
    /\ cursor' = tt1
    /\ itit' = 0
    /\ tt2' = Min2(tt1 + (sttd_max + twlex), dsg_sttmax)
    /\ tts' = None /\ ttd' = None
    /\ tts_sta' = EmptyDict /\ ttd_sta' = EmptyDict
    /\ nsta_trig' = 0
    /\ ista' = 1
    /\ pc' = "sta"
    /\ seen' = <<>>
    /\ UNCHANGED <<first, searched, files, db, dsg_sttmin, dsg_sttmax, cfg, tt1, ttd_previous, todo, station_triggered,
                   prob_det_max, events, outputs>>

\* line 133: the while test fails, line 374
Finish ==
    /\ pc = "while" /\ tt1 > dsg_sttmax
    /\ pc' = "done"
    /\ UNCHANGED <<first, searched, itit, files, db, dsg_sttmin, dsg_sttmax, cfg, tt1, tt2, tts, ttd, tts_sta, ttd_sta, nsta_trig,
                   ttd_previous, ista, todo, station_triggered, prob_det_max,
                   events, outputs, cursor, seen>>

\* lines 157-168, 289: no segment of the station includes [tt1, tt2]
StationGap ==
    /\ pc = "sta" /\ ista <= Len(db)
    /\ dindx(ista, tt1, tt2) = {}
    /\ ista' = ista + 1
    /\ station_triggered' = FALSE
    /\ prob_det_max' = 0
    /\ seen' = <<>>
    /\ UNCHANGED <<first, searched, itit, files, db, dsg_sttmin, dsg_sttmax, cfg, pc, tt1, tt2, tts, ttd, tts_sta, ttd_sta, nsta_trig,
                   ttd_previous, todo, events, outputs, cursor>>

\* lines 157-169: the station has segments that include [tt1, tt2]
StationBegin ==
    /\ pc = "sta" /\ ista <= Len(db)
    /\ dindx(ista, tt1, tt2) # {}
    /\ todo' = dindx(ista, tt1, tt2)
    /\ station_triggered' = FALSE
    /\ prob_det_max' = 0
    /\ pc' = "seg"
    /\ seen' = <<>>
    /\ UNCHANGED <<first, searched, itit, files, db, dsg_sttmin, dsg_sttmax, cfg, tt1, tt2, tts, ttd, tts_sta, ttd_sta, nsta_trig,
                   ttd_previous, ista, events, outputs, cursor>>

isgindex == MinOf(todo)
NextSegment ==
    /\ todo' = todo \ {isgindex}
    /\ IF todo \ {isgindex} = {}
       THEN pc' = "sta" /\ ista' = ista + 1
       ELSE pc' = "seg" /\ ista' = ista

\* lines 170-180, 286-287: the segment has no detection in [tt1, tt2]
SegmentQuiet ==
    /\ pc = "seg"
    /\ detecid(db[ista][isgindex], tt1, tt2) = {}
    /\ NextSegment
    /\ UNCHANGED <<first, searched, itit, files, db, dsg_sttmin, dsg_sttmax, cfg, tt1, tt2, tts, ttd, tts_sta, ttd_sta, nsta_trig,
                   ttd_previous, station_triggered, prob_det_max, events,
                   outputs, cursor, seen>>

\* lines 170-287: the segment has a detection in [tt1, tt2]
SegmentTrigger ==
    /\ pc = "seg"
    /\ detecid(db[ista][isgindex], tt1, tt2) # {}
    /\ LET r == Refine(ista, db[ista][isgindex])
       IN  /\ nsta_trig' = NewCount
           /\ station_triggered' = TRUE
           /\ tts_sta' = r.tts_sta /\ ttd_sta' = r.ttd_sta
           /\ tts' = r.tts /\ ttd' = r.ttd /\ tt2' = r.tt2
           /\ prob_det_max' = r.prob_det_max
           /\ IF r.err
              THEN pc' = "error" /\ UNCHANGED <<ista, todo>>
              ELSE NextSegment
    /\ seen' = Append(seen, [sg |-> isgindex,
                             pmax |-> dprobD_max(db[ista][isgindex], tt1, tt2),
                             tts |-> ClampStart(tts_temp(db[ista][isgindex], tt1, tt2)),
                             ttd |-> ClampEnd(ttd_temp(db[ista][isgindex], tt1, tt2)),
                             tt2 |-> tt2])
    /\ UNCHANGED <<first, searched, itit, files, db, dsg_sttmin, dsg_sttmax, cfg, tt1, ttd_previous, events, outputs, cursor>>

\* lines 291-297, 366-372: fewer than nsta_thrd stations triggered
Discard ==
    /\ pc = "sta" /\ ista > Len(db)
    /\ ~EnoughStations
    /\ tt1' = NewCursor
    /\ ttd_previous' = KeptPrevious
    /\ pc' = "while"
    /\ searched' = searched \cup {<<tt1, tt2>>}
    /\ UNCHANGED <<first, itit, files, db, dsg_sttmin, dsg_sttmax, cfg, tt2, tts, ttd, tts_sta, ttd_sta, nsta_trig,
                   ista, todo, station_triggered, prob_det_max,
                   events, outputs, cursor, seen>>

\* lines 297-305: enough stations triggered, start the output of the event;
\* line 304 raises when no station triggered (tts is None)
EventBegin ==
    /\ pc = "sta" /\ ista > Len(db)
    /\ EnoughStations /\ LastPass
    /\ Len(events) < MaxEvents
    /\ outputs' = <<>>
    /\ ista' = 1
    /\ pc' = IF tts = None THEN "error" ELSE "emit"
    /\ UNCHANGED <<first, searched, itit, files, db, dsg_sttmin, dsg_sttmax, cfg, tt1, tt2, tts, ttd, tts_sta, ttd_sta, nsta_trig,
                   ttd_previous, todo, station_triggered, prob_det_max,
                   events, cursor, seen>>

\* lines 307-360: output the slice of one station, if it has a segment
\* that includes [tts, ttd]
EmitStation ==
    /\ pc = "emit" /\ ista <= Len(db)
    /\ IF HasOutput(ista)
       THEN LET k     == data_sgindex(ista)
                odata == data_pdindex(db[ista][k], tts, ttd)
            IN  IF odata = {}
                THEN pc' = "error" /\ UNCHANGED <<outputs, ista>>
                ELSE /\ outputs' = Append(outputs,
                            [sta |-> ista, sg |-> k, dir |-> tts,
                             starttime |-> data_times(db[ista][k], MinOf(odata)),
                             npts |-> Cardinality(odata)])
                     /\ ista' = ista + 1
                     /\ pc' = "emit"
       ELSE /\ ista' = ista + 1
            /\ UNCHANGED <<outputs, pc>>
    /\ UNCHANGED <<first, searched, itit, files, db, dsg_sttmin, dsg_sttmax, cfg, tt1, tt2, tts, ttd, tts_sta, ttd_sta, nsta_trig,
                   ttd_previous, todo, station_triggered, prob_det_max,
                   events, cursor, seen>>

\* lines 361-372: the event is written; move ttd_previous and the cursor
EventEnd ==
    /\ pc = "emit" /\ ista > Len(db)
    /\ events' = Append(events, [tts |-> tts, ttd |-> ttd, nsta_trig |-> nsta_trig,
                                 tts_sta |-> tts_sta, ttd_sta |-> ttd_sta,
                                 outputs |-> outputs])
    /\ ttd_previous' = NewPrevious
    /\ tt1' = NewCursor
    /\ pc' = "while"
    /\ searched' = searched \cup {<<tt1, tt2>>}
    /\ UNCHANGED <<first, itit, files, db, dsg_sttmin, dsg_sttmax, cfg, tt2, tts, ttd, tts_sta, ttd_sta, nsta_trig, ista,
                   todo, station_triggered, prob_det_max, outputs, cursor, seen>>

\* lines 336-354: the file of the station cannot be read any more, or the
\* output of a slice fails; the exception ends the call, and the slices of
\* the stations before stay where they were put
EmitFails ==
    /\ pc = "emit" /\ ista <= Len(db)
    /\ HasOutput(ista)
    /\ pc' = "error"
    /\ UNCHANGED <<first, searched, itit, files, db, dsg_sttmin, dsg_sttmax, cfg, tt1, tt2, tts, ttd, tts_sta,
                   ttd_sta, nsta_trig, ttd_previous, ista, todo, station_triggered,
                   prob_det_max, events, outputs, cursor, seen>>

\* lines 144-155, 291-292: enough stations triggered and the pass is not the
\* last: the next pass searches [tts, ttd]
NextPass ==
    /\ pc = "sta" /\ ista > Len(db)
    /\ EnoughStations /\ ~LastPass
    /\ IF tts = None
       THEN /\ pc' = "error"
            /\ UNCHANGED <<itit, tt1, tt2, tts, ttd, tts_sta, ttd_sta, nsta_trig, ista, seen>>
       ELSE /\ itit' = itit + 1
            /\ tt1' = tts /\ tt2' = ttd
            /\ tts' = None /\ ttd' = None
            /\ tts_sta' = EmptyDict /\ ttd_sta' = EmptyDict
            /\ nsta_trig' = 0
            /\ ista' = 1
            /\ pc' = "sta"
            /\ seen' = <<>>
    /\ UNCHANGED <<first, searched, files, db, dsg_sttmin, dsg_sttmax, cfg, ttd_previous, todo,
                   station_triggered, prob_det_max, events, outputs, cursor>>

\* the start, the end and the number of stations of the events
Summary(ev) ==
    [i \in 1..Len(ev) |-> [tts |-> ev[i].tts, ttd |-> ev[i].ttd,
                           nsta_trig |-> ev[i].nsta_trig]]
\* lines 87-132: the call has returned; the same folders under names that
\* sort in another order are given to a second call with the same arguments
Recall ==
    /\ pc = "done" /\ ~first.done
    /\ first' = [done |-> TRUE, events |-> Summary(events)]
    /\ \E perm \in Permutations(DOMAIN db) :
        /\ \E i \in DOMAIN db : perm[i] # i
        /\ db' = [i \in DOMAIN db |-> db[perm[i]]]
        /\ files' = [i \in DOMAIN db |-> [ok |-> TRUE, segs |-> db[perm[i]]]]
    /\ pc' = "while"
    /\ itit' = 0
    /\ searched' = {}
    /\ tt1' = dsg_sttmin
    /\ ttd_previous' = dsg_sttmin
    /\ cursor' = dsg_sttmin
    /\ tt2' = dsg_sttmin
    /\ tts' = None /\ ttd' = None
    /\ tts_sta' = EmptyDict /\ ttd_sta' = EmptyDict
    /\ nsta_trig' = 0
    /\ ista' = 1
    /\ todo' = {}
    /\ station_triggered' = FALSE
    /\ prob_det_max' = 0
    /\ events' = <<>>
    /\ outputs' = <<>>
    /\ seen' = <<>>
    /\ UNCHANGED <<cfg, dsg_sttmin, dsg_sttmax>>

Next ==
    \/ Seed
    \/ Finish
    \/ StationGap
    \/ StationBegin
    \/ SegmentQuiet
    \/ SegmentTrigger
    \/ Discard
    \/ EventBegin
    \/ EmitStation
    \/ EventEnd

Spec == Init /\ [][Next]_vars
\* the scan of stations that sample at different times
OffSpec == OffInit /\ [][Next]_vars
\* two calls, the second with the station folders in another order
OrderNext == Recall \/ Next
OrderSpec == Init /\ [][OrderNext]_vars
\* the scan with N_tit set to 2 or 3
TitNext == NextPass \/ Next
TitSpec == TitInit /\ [][TitNext]_vars
\* the scan of a store with a station of two segments
TwoSegSpec == TwoSegInit /\ [][Next]_vars
\* the call from its start, with files that may not load, thresholds that
\* are no thresholds and outputs that may fail
FaultNext ==
    \/ Load
    \/ EmitFails
    \/ Next
FaultSpec == FaultInit /\ [][FaultNext]_vars
\* the scan of the scenario of five stations
ScenSpec == ScenInit /\ [][Next]_vars

\* ---- properties -----------------------------------------------------------
\* the position after the loop over the stations: lines 291-297 decide
AtDecide == pc = "sta" /\ ista > Len(db)
\* stations that hold a per-station trigger in the current pass
Triggered == DOMAIN tts_sta

\* C1: for every two consecutively finalized events, the start (tts) of the
\* later one is not earlier than the end (ttd) of the earlier one.
C1_Monotonic ==
    \A i \in 1..(Len(events) - 1) : events[i + 1].tts >= events[i].ttd
\* two events were finalized and the later one starts exactly where the
\* earlier one ended
C1_Witness ==
    /\ Len(events) >= 2
    /\ events[2].tts = events[1].ttd

\* C2: an outer iteration outputs an event if and only if the number of
\* distinct stations that triggered in it is >= nsta_thrd; an iteration with
\* fewer triggered stations leaves the list of events as it is.
C2_Threshold ==
    [][ /\ AtDecide =>
            /\ (Cardinality(Triggered) >= nsta_thrd) <=> (pc' = "emit")
            /\ (Cardinality(Triggered) < nsta_thrd) =>
                   (pc' = "while" /\ events' = events)
        /\ (events' # events) =>
            /\ Cardinality(Triggered) >= nsta_thrd
            /\ events' = Append(events, events'[Len(events')])
            /\ DOMAIN events'[Len(events')].tts_sta = Triggered ]_vars
\* an iteration was discarded although some stations, one fewer than
\* nsta_thrd, had triggered
C2_Witness ==
    /\ pc = "while" /\ tt1 > cursor
    /\ events = <<>>
    /\ Cardinality(Triggered) >= 1
    /\ Cardinality(Triggered) = nsta_thrd - 1

\* the steps that are left, at most, before the scan ends: the iterations
\* that the distance of tt1 to the latest endtime allows, each of at most
\* IterSteps steps, and the steps left in the current iteration
RECURSIVE StationSteps(_)
StationSteps(i) == IF i > Len(db) THEN 0 ELSE 1 + Len(db[i]) + StationSteps(i + 1)
IterSteps == StationSteps(1) + Len(db) + 3
Rank ==
    LET inner == CASE pc = "while" -> IterSteps
                   [] pc = "sta"   -> StationSteps(ista) + Len(db) + 2
                   [] pc = "seg"   -> Cardinality(todo) + StationSteps(ista + 1) + Len(db) + 2
                   [] pc = "emit"  -> Len(db) + 2 - ista
                   [] OTHER        -> 0
    IN  IF pc = "done" THEN 0
        ELSE (dsg_sttmax + dt_EQT - tt1) * (IterSteps + 1) + inner

\* C3: every outer iteration ends with the cursor tt1 at least one sample
\* interval later than it was at the start of the iteration, whatever the
\* iteration did; every step of the scan lowers the non-negative number of
\* steps that are left, the scan is always at a position that has a next
\* step until the while loop ends, and it ends with the cursor after the
\* latest endtime.
C3_Progress ==
    /\ [][ /\ (pc # "while" /\ pc' = "while") => tt1' >= cursor + dt_EQT
           /\ Rank' < Rank /\ Rank' >= 0 ]_vars
    /\ [](/\ pc \in {"while", "sta", "seg", "emit", "done"}
          /\ pc = "seg" => (todo # {} /\ ista <= Len(db))
          /\ pc = "done" => tt1 > dsg_sttmax)
\* the scan has ended after an iteration with an event, and its last
\* iteration was discarded with a trigger
C3_Witness ==
    /\ pc = "done"
    /\ events # <<>>
    /\ Cardinality(Triggered) >= 1 /\ Cardinality(Triggered) < nsta_thrd

\* C4 as stated: a discarded iteration emits nothing and the next cursor is
\* tt2 + dt_EQT, whether or not some stations triggered.
C4_Original ==
    [][ (AtDecide /\ nsta_trig < nsta_thrd) =>
            /\ events' = events /\ pc' = "while"
            /\ tt1' = tt2 + dt_EQT ]_vars
\* C4 amended: a discarded iteration emits nothing; the next cursor is
\* tt2 + dt_EQT when no station triggered and ttd + dt_EQT, which is at most
\* tt2 + dt_EQT, when some station triggered.
C4_Discard ==
    [][ (AtDecide /\ nsta_trig < nsta_thrd) =>
            /\ events' = events /\ pc' = "while"
            /\ nsta_trig = 0 => tt1' = tt2 + dt_EQT
            /\ nsta_trig > 0 => (tt1' = ttd + dt_EQT /\ tt1' <= tt2 + dt_EQT) ]_vars
\* an iteration with a trigger was discarded and the cursor is before
\* tt2 + dt_EQT
C4_Witness ==
    /\ pc = "while" /\ tt1 > cursor
    /\ nsta_trig > 0 /\ nsta_trig < nsta_thrd
    /\ tt1 = ttd + dt_EQT /\ tt1 < tt2 + dt_EQT

\* C5: the iteration that finalizes an event with end ttd sets ttd_previous
\* to ttd and the cursor tt1 to ttd + dt_EQT; the output of an event always
\* gets there.
C5_EventBranch ==
    [][ pc = "emit" =>
            /\ pc' \in {"emit", "while"}
            /\ pc' = "while" =>
                /\ Len(events') = Len(events) + 1
                /\ events'[Len(events')].ttd = ttd
                /\ ttd_previous' = ttd
                /\ tt1' = ttd + dt_EQT ]_vars
\* an event was finalized before the searched range ended
C5_Witness ==
    /\ pc = "while" /\ events # <<>>
    /\ ttd_previous = events[Len(events)].ttd
    /\ tt1 = ttd_previous + dt_EQT
    /\ ttd_previous < tt2
\* the segment that the next step of the segment loop handles
CurSeg == db[ista][isgindex]
\* the samples of seg at or above the threshold
Run(seg) == {i \in Indices : data_probD(seg, i) >= d_thrd}
\* seg has exactly one contiguous run at or above the threshold, and the
\* run touches neither the first nor the last sample
SingleInteriorRun(seg) ==
    /\ Run(seg) # {}
    /\ \A i \in MinOf(Run(seg))..MaxOf(Run(seg)) : i \in Run(seg)
    /\ MinOf(Run(seg)) > 0
    /\ MaxOf(Run(seg)) < data_size_EQT - 1
RunStart(seg) == data_times(seg, MinOf(Run(seg)))
RunEnd(seg) == data_times(seg, MaxOf(Run(seg)))
\* [tt1, tt2] holds a sample of the run of seg
RunInWindow(seg) ==
    \E i \in Run(seg) : data_times(seg, i) >= tt1 /\ data_times(seg, i) <= tt2
\* the refinement of seg is the one kept for its station (lines 212, 261)
Kept(seg) ==
    \A i \in Indices :
        (data_times(seg, i) >= tt1 /\ data_times(seg, i) <= tt2
         /\ data_probD(seg, i) >= d_thrd) => data_probD(seg, i) > prob_det_max

EdgeRun(seg) ==
    \E f \in Indices :
        /\ data_times(seg, f) >= tt1 /\ data_times(seg, f) <= tt2
        /\ \A i \in 0..(f - 1) : data_times(seg, i) < tt1
        /\ \A i \in 0..f : data_probD(seg, i) >= d_thrd

\* C7 as stated: for a run that begins at sample 0 of the segment, the
\* refined start of the station is exactly segment start - spttdf_ssmax.
C7_Original ==
    [][ (pc = "seg" /\ EdgeRun(CurSeg) /\ Kept(CurSeg)) =>
            tts_sta'[ista] = CurSeg.start - spttdf_ssmax ]_vars
\* C7 amended: for such a run, when the refinement of the segment is the one
\* kept for the station, the refined start is segment start - spttdf_ssmax
\* but not earlier than the end of the previous event.
C7_EdgeSaturation ==
    [][ (pc = "seg" /\ EdgeRun(CurSeg) /\ Kept(CurSeg)) =>
            /\ ista \in DOMAIN tts_sta'
            /\ tts_sta'[ista] = Max2(CurSeg.start - spttdf_ssmax, ttd_previous) ]_vars
\* a station whose only segment is above the threshold at every sample
\* triggered and its refined start is segment start - spttdf_ssmax, before
\* the segment
C7_Witness ==
    /\ pc \in {"sta", "seg"}
    /\ spttdf_ssmax > 0
    /\ \E s \in Triggered :
        /\ Len(db[s]) = 1 /\ Run(db[s][1]) = Indices
        /\ tts_sta[s] = db[s][1].start - spttdf_ssmax

\* the samples of seg within [tt1, tt2]
InWindow(seg) ==
    {i \in Indices : data_times(seg, i) >= tt1 /\ data_times(seg, i) <= tt2}

\* C8: a sample of a covering segment within the searched range whose
\* probability equals d_thrd makes the station count as triggered (once),
\* a segment whose samples in the range are all below d_thrd changes neither
\* the count nor the triggers, and the count only ever grows by a segment
\* with a sample >= d_thrd in the range.
C8_Boundary ==
    [][ /\ pc = "seg" =>
            /\ (\E i \in InWindow(CurSeg) : data_probD(CurSeg, i) = d_thrd) =>
                  /\ station_triggered'
                  /\ ista \in DOMAIN tts_sta'
                  /\ nsta_trig' = IF station_triggered THEN nsta_trig
                                  ELSE nsta_trig + 1
            /\ (\A i \in InWindow(CurSeg) : data_probD(CurSeg, i) < d_thrd) =>
                  /\ nsta_trig' = nsta_trig
                  /\ station_triggered' = station_triggered
                  /\ tts_sta' = tts_sta /\ ttd_sta' = ttd_sta
        /\ nsta_trig' > nsta_trig =>
            /\ pc = "seg"
            /\ \E i \in InWindow(CurSeg) : data_probD(CurSeg, i) >= d_thrd ]_vars
\* a station none of whose samples is above d_thrd is counted as triggered
C8_Witness ==
    /\ pc = "sta" /\ nsta_trig >= 1
    /\ \E s \in Triggered :
        \A k \in 1..Len(db[s]) : \A i \in Indices : data_probD(db[s][k], i) <= d_thrd

\* no segment of sta starts at or before tt1 and ends at or after tt2
NoCover(sta) ==
    \A k \in 1..Len(db[sta]) :
        ~(db[sta][k].start <= tt1 /\ db[sta][k].start + data_sglength >= tt2)

\* C9: a station none of whose segments includes [tt1, tt2] adds nothing to
\* the count of triggered stations, gets no per-station trigger, leaves
\* tts, ttd and tt2 as they are, and the scan goes on with the next station.
C9_Gap ==
    [][ (pc = "sta" /\ ista <= Len(db) /\ NoCover(ista)) =>
            /\ nsta_trig' = nsta_trig
            /\ tts_sta' = tts_sta /\ ttd_sta' = ttd_sta
            /\ ista \notin DOMAIN tts_sta' /\ ista \notin DOMAIN ttd_sta'
            /\ tts' = tts /\ ttd' = ttd /\ tt2' = tt2
            /\ pc' = "sta" /\ ista' = ista + 1 ]_vars
\* the station before ista has no segment that includes [tt1, tt2] but has
\* a sample >= d_thrd within it; it holds no trigger, and another station
\* triggered
C9_Witness ==
    /\ pc = "sta" /\ ista > 1
    /\ NoCover(ista - 1)
    /\ \E k \in 1..Len(db[ista - 1]) :
          \E i \in InWindow(db[ista - 1][k]) : data_probD(db[ista - 1][k], i) >= d_thrd
    /\ (ista - 1) \notin Triggered
    /\ nsta_trig >= 1

\* ---- the scenario of five stations ----
\* the stations whose segment carries the run, and the others
ScenCarriers == {s \in stanames : db[s] = <<ScenCarrier>>}
ScenOthers == stanames \ ScenCarriers
\* all segments start at the same time
ScenAligned == \A s \in stanames : db[s][1].start = 0
\* the scan of the scenario ended with one event of the carriers, from
\* ts to td, and every station was output over the whole of [ts, td]
ScenOneEvent(ts, td) ==
    /\ Len(events) = 1
    /\ events[1].nsta_trig = nsta_thrd_default
    /\ DOMAIN events[1].tts_sta = ScenCarriers
    /\ events[1].tts = ts /\ events[1].ttd = td
    /\ \A s \in stanames :
          \E j \in 1..Len(events[1].outputs) :
              /\ events[1].outputs[j].sta = s
              /\ events[1].outputs[j].starttime = ts
              /\ events[1].outputs[j].npts = (td - ts) \div dt_EQT + 1

\* C11 as stated: whenever the segments of the five stations include the
\* run, the scan ends with exactly one event of the three carriers, from
\* the first sample >= d_thrd less twlex to the last one plus twlex, and the
\* two other stations are output over that range.
C11_Original ==
    pc = "done" =>
        ScenOneEvent(MinOf(ScenRun) - twlex, MaxOf(ScenRun) + twlex)
\* C11 amended: when all five segments start at the same time, the scan
\* ends with exactly one event of the three carriers, from the first sample
\* >= d_thrd less twlex, but not before the earliest start of the data, to
\* the last one plus twlex, but not after the latest end of the data, and
\* the two other stations are output over that range.
C11_Scenario ==
    (pc = "done" /\ ScenAligned) =>
        ScenOneEvent(Max2(MinOf(ScenRun) - twlex, dsg_sttmin),
                     Min2(MaxOf(ScenRun) + twlex, dsg_sttmax))
\* the scenario ended with its event, which begins twlex > 0 before the run
C11_Witness ==
    /\ pc = "done" /\ ScenAligned /\ twlex > 0
    /\ Len(events) = 1 /\ Len(events[1].outputs) = Len(ScenNames)
    /\ events[1].tts = MinOf(ScenRun) - twlex
    /\ events[1].nsta_trig = nsta_thrd_default
\* C12: any two distinct finalized events of one scan have different starts
\* (tts), so that no two events share an output folder.
C12_UniqueStart ==
    \A i, j \in 1..Len(events) : i # j => events[i].tts # events[j].tts
\* ---- failures ----
\* the stations that were handed to the output for the current event
OutputStations == {outputs[j].sta : j \in 1..Len(outputs)}
\* the thresholds are thresholds
ValidCfg == nsta_thrd >= 1 /\ d_thrd > 0

\* C13: with valid thresholds, when the output of an event stops, either the slices of all the
\* stations that have a segment including [tts, ttd] were handed to the
\* output, or none was; a failure in the middle of the loop leaves no slice.
C13_NoPartial ==
    [][ (ValidCfg /\ pc = "emit" /\ pc' # "emit") =>
            \/ OutputStations' = {}
            \/ OutputStations' = {s \in stanames : HasOutput(s)} ]_vars

\* C14: with valid thresholds, when the file of one station is missing, unreadable or without
\* segments, and another can be loaded, the load ends with the store of the
\* stations that can be loaded and the scan starts.
C14_LoadRecovery ==
    [][ (ValidCfg /\ pc = "load" /\ Unloadable # {} /\ Unloadable # DOMAIN files) =>
            /\ pc' = "while"
            /\ Len(db') = Len(files) - Cardinality(Unloadable) ]_vars

\* C15: with nsta_thrd <= 0 or d_thrd <= 0 the call ends with an error
\* before it evaluates a search window and before it outputs an event.
C15_ConfigRejected ==
    (nsta_thrd <= 0 \/ d_thrd <= 0) =>
        (pc \in {"load", "while", "error"} /\ events = <<>> /\ outputs = <<>>)

\* ---- the search window and the kept detections within one pass ----
\* the width added to the start of the search (lines 232, 234)
Width == sttd_max + twlex

\* C16 as stated: while the segments of the stations are taken, no step
\* gives the end tt2 of the searched range a smaller value.
C16_Original ==
    [][ pc = "seg" => tt2' >= tt2 ]_vars

\* C16: while the segments of the stations are taken, a step gives tt2 a
\* smaller value only when it gives the start tts of the extraction an
\* earlier value; after each segment with a detection tt2 is the later of
\* max(tts, tt1) + sttd_max + twlex and ttd, not later than the latest endtime.
C16_WindowEnd ==
    [][ pc = "seg" =>
            /\ tt2' >= tt2 \/ (tts # None /\ tts' < tts)
            /\ (tts' # tts \/ ttd' # ttd) =>
                    tt2' = ClampEnd(Max2(Max2(tts', tt1) + Width, ttd')) ]_vars

\* a station's second segment with a detection met a searched range that
\* its first segment had extended, and extended it again
C16_Witness ==
    /\ pc \in {"sta", "seg"}
    /\ Len(seen) >= 2
    /\ seen[2].tt2 > seen[1].tt2
    /\ tt2 > seen[2].tt2

\* C17: at the end of a pass over the stations with a detection, tts is the
\* earliest of the kept starts tts_sta of the stations and ttd the latest of
\* their kept ends ttd_sta; a segment whose detection was replaced by the
\* detection of a later segment of the station leaves no trace in them.
C17_KeptExtremes ==
    (AtDecide /\ DOMAIN tts_sta # {}) =>
        /\ tts = MinOf({tts_sta[s] : s \in DOMAIN tts_sta})
        /\ ttd = MaxOf({ttd_sta[s] : s \in DOMAIN ttd_sta})

\* the first of the station's segments with a detection so far that has
\* the highest probability in the searched range
BestSeen(sn) ==
    MinOf({k \in 1..Len(sn) : \A j \in 1..Len(sn) : sn[j].pmax <= sn[k].pmax})

\* C18: after each segment with a detection, the kept start tts_sta and the
\* kept end ttd_sta of the station are both those of one segment: of the
\* station's segments with a detection so far, the one with the highest
\* probability in the searched range, and the first of them on a tie.
C18_BestSegment ==
    [][ (pc = "seg" /\ pc' # "error" /\ seen' # seen) =>
            /\ tts_sta'[ista] = seen'[BestSeen(seen')].tts
            /\ ttd_sta'[ista] = seen'[BestSeen(seen')].ttd ]_vars

\* two segments of a station had a detection in one pass, with the same
\* highest probability and different starts and ends
C18_Witness ==
    /\ pc \in {"sta", "seg"}
    /\ Len(seen) = 2
    /\ seen[1].pmax = seen[2].pmax
    /\ seen[1].tts # seen[2].tts
    /\ seen[1].ttd # seen[2].ttd

\* C19: the number nsta_trig of triggered stations is the number of stations
\* with a detection in the pass, whatever the number of their segments with
\* a detection: it is never negative and never more than the number of stations.
C19_CountedOnce ==
    /\ nsta_trig >= 0
    /\ nsta_trig <= Len(db)
    /\ nsta_trig = Cardinality(DOMAIN tts_sta)

\* two segments of the first station had a detection in one pass
C19_Witness ==
    /\ pc \in {"sta", "seg"}
    /\ Len(seen) = 2
    /\ nsta_trig = 1
    /\ DOMAIN tts_sta = {1}

\* C20: a segment whose samples give a detection in [tt1, tt2] includes the
\* whole of [tt1, tt2], also when an earlier segment of the station has
\* moved tt2 in the pass; a segment that includes only a part of the
\* searched range gives no detection.
C20_Coverage ==
    (pc = "seg" /\ detecid(CurSeg, tt1, tt2) # {}) =>
        (CurSeg.start <= tt1 /\ dsg_endtime(CurSeg) >= tt2)

\* ---- bounds of the times of a pass ----
\* C21: in every state the kept end ttd_sta of every station, the end ttd
\* of the extraction and the end tt2 of the searched range are not later
\* than the latest endtime dsg_sttmax, and ttd, once set, is not later than tt2.
C21_UpperBound ==
    /\ \A s \in DOMAIN ttd_sta : ttd_sta[s] <= dsg_sttmax
    /\ ttd <= dsg_sttmax
    /\ tt2 <= dsg_sttmax
    /\ ttd # None => ttd <= tt2

\* the end of a detection went past the latest endtime and was held back
C21_Witness ==
    /\ pc = "seg"
    /\ Len(seen) = 1
    /\ ttd_temp(db[ista][seen[1].sg], tt1, seen[1].tt2) > dsg_sttmax
    /\ ttd_sta[ista] = dsg_sttmax
    /\ ttd = dsg_sttmax
    /\ tt2 = dsg_sttmax

\* ---- the output of an event ----
\* twice the midpoint of a segment
SegMid2(seg) == seg.start + dsg_endtime(seg)
\* twice the centre of a station in the output of the event
Centre2(s) ==
    IF s \in DOMAIN tts_sta THEN tts_sta[s] + ttd_sta[s] ELSE tts + ttd
\* the segments of s that start at or before tts and end at or after ttd
Covering(s) ==
    {k \in 1..Len(db[s]) : db[s][k].start <= tts /\ dsg_endtime(db[s][k]) >= ttd}

\* C22: every slice handed to the output of an event is of a segment of its
\* station that includes [tts, ttd]; no other such segment has its midpoint
\* nearer to the centre of the station (the midpoint of its own detection
\* if it triggered, of [tts, ttd] if not), and none at the same distance
\* comes before it in the store.
C22_Centring ==
    pc = "emit" =>
        \A n \in 1..Len(outputs) :
            LET s == outputs[n].sta
                k == outputs[n].sg
            IN  /\ k \in Covering(s)
                /\ \A j \in Covering(s) :
                    \/ Abs(SegMid2(db[s][k]) - Centre2(s)) < Abs(SegMid2(db[s][j]) - Centre2(s))
                    \/ /\ Abs(SegMid2(db[s][k]) - Centre2(s)) = Abs(SegMid2(db[s][j]) - Centre2(s))
                       /\ k <= j

\* a station with a detection and two segments that include [tts, ttd] was
\* output from its second segment, nearer to its own detection, while the
\* midpoint of [tts, ttd] is elsewhere
C22_Witness ==
    /\ pc = "emit"
    /\ \E n \in 1..Len(outputs) :
        /\ outputs[n].sta \in DOMAIN tts_sta
        /\ Cardinality(Covering(outputs[n].sta)) = 2
        /\ outputs[n].sg = 2
        /\ Centre2(outputs[n].sta) # tts + ttd

\* C23: in the output of an event a station without a segment that includes
\* [tts, ttd], triggered or not, is passed over: nothing is handed to the
\* output for it and the loop goes on to the next station; when the loop
\* ends the stations with such a segment have all been output, the event is
\* recorded, ttd_previous becomes its end and the search goes on after it.
C23_Skip ==
    [][ pc = "emit" =>
            /\ (ista <= Len(db) /\ Covering(ista) = {}) =>
                    (outputs' = outputs /\ ista' = ista + 1 /\ pc' = "emit")
            /\ pc' = "while" =>
                    /\ OutputStations = {s \in stanames : Covering(s) # {}}
                    /\ Len(events') = Len(events) + 1
                    /\ ttd_previous' = ttd
                    /\ tt1' = ttd + dt_EQT ]_vars

\* an event was recorded with the slice of one station, while a station
\* with a detection had no segment that includes [tts, ttd]
C23_Witness ==
    /\ pc = "while"
    /\ events # <<>>
    /\ LET e == events[Len(events)]
       IN  /\ e.outputs # <<>>
           /\ \E s \in DOMAIN e.tts_sta :
                \A n \in 1..Len(e.outputs) : e.outputs[n].sta # s

\* ---- what the scan leaves alone ----
\* C24: no step of the scan changes the store (the start, the end, the
\* probabilities and the order of the segments of every station) or the
\* earliest starttime and latest endtime; ttd_previous changes only in the
\* step that ends the output of an event, and a pass that ends without
\* output leaves it, also when stations had a detection.
C24_Frame ==
    [][ pc # "load" =>
            /\ db' = db
            /\ dsg_sttmin' = dsg_sttmin
            /\ dsg_sttmax' = dsg_sttmax
            /\ ttd_previous' # ttd_previous =>
                    (pc = "emit" /\ pc' = "while" /\ Len(events') = Len(events) + 1)
            /\ (AtDecide /\ ~EnoughStations) => ttd_previous' = ttd_previous ]_vars

\* a pass ended without output although a station had a detection that
\* ends after the end of the previous output
C24_Witness ==
    /\ pc = "while"
    /\ nsta_trig >= 1
    /\ nsta_trig < nsta_thrd
    /\ ttd # None
    /\ ttd > ttd_previous

\* ---- more than one pass ----
\* C25: with N_tit >= 2, when a searched range is left (without output or
\* after the output of an event), the start tt1 of the next search is later
\* than the start of the search that is left.
C25_Progress ==
    [][ (pc \in {"sta", "emit"} /\ pc' = "while") => tt1' > cursor ]_vars

\* ---- order of the starts and the ends ----
\* C26: the kept start of a station is never after its kept end, and the
\* start of an event that was output is never after its end, also when the
\* start was moved up to the end of the previous output and the end was
\* moved down to the latest endtime.
C26_NoInversion ==
    /\ \A s \in DOMAIN tts_sta \cap DOMAIN ttd_sta : tts_sta[s] <= ttd_sta[s]
    /\ \A i \in 1..Len(events) :
        /\ events[i].tts <= events[i].ttd
        /\ \A s \in DOMAIN events[i].tts_sta :
                events[i].tts_sta[s] <= events[i].ttd_sta[s]

\* after an earlier event, the start of a detection was moved up to the end
\* of the previous output and its end was moved down to the latest endtime
C26_Witness ==
    /\ pc = "sta" /\ ista > 1
    /\ events # <<>>
    /\ Len(seen) = 1
    /\ tts_temp(db[ista - 1][seen[1].sg], tt1, seen[1].tt2) < ttd_previous
    /\ ttd_temp(db[ista - 1][seen[1].sg], tt1, seen[1].tt2) > dsg_sttmax
    /\ tts_sta[ista - 1] = ttd_previous
    /\ ttd_sta[ista - 1] = dsg_sttmax

\* C27: at the end of a pass over the stations, for every station with a
\* detection: ttd_previous <= tts <= tts_sta of the station, and ttd_sta of
\* the station <= ttd <= the latest endtime.
C27_Nested ==
    AtDecide =>
        \A s \in DOMAIN tts_sta :
            /\ ttd_previous <= tts
            /\ tts <= tts_sta[s]
            /\ ttd_sta[s] <= ttd
            /\ ttd <= dsg_sttmax

\* a pass ended with two stations with a detection, one that starts after
\* tts and one that ends before ttd
C27_Witness ==
    /\ AtDecide
    /\ Cardinality(DOMAIN tts_sta) = 2
    /\ \E s \in DOMAIN tts_sta : tts < tts_sta[s]
    /\ \E s \in DOMAIN ttd_sta : ttd_sta[s] < ttd

\* ---- the threshold 0 ----
\* C28: for a threshold d_thrd >= 0 (and nsta_thrd >= 1), a segment with a
\* detection leaves its station with a kept start and a kept end, without
\* error; at the end of a pass the stations with a kept start are those
\* with a kept end, and nsta_trig is their number.
C28_Bookkeeping ==
    [][ (nsta_thrd >= 1 /\ d_thrd >= 0) =>
            /\ (pc = "seg" /\ detecid(CurSeg, tt1, tt2) # {}) =>
                    /\ pc' # "error"
                    /\ ista \in DOMAIN tts_sta' \cap DOMAIN ttd_sta'
            /\ AtDecide =>
                    /\ DOMAIN tts_sta = DOMAIN ttd_sta
                    /\ Cardinality(DOMAIN tts_sta) = nsta_trig ]_vars

\* ---- the searched ranges ----
\* the times of the samples of the store
SampleTimes == UNION {{data_times(sg, i) : i \in Indices} : sg \in AllSegs(db)}

\* C29 as stated: the start of the next search is at most one sample
\* interval after the end of the searched range that was left, and at the
\* end of the scan every sample time is in one of the searched ranges.
C29_Original ==
    /\ pc = "while" => tt1 <= tt2 + dt_EQT
    /\ pc = "done" =>
        \A t \in SampleTimes : \E w \in searched : w[1] <= t /\ t <= w[2]

\* C29: the start of the next search is at most one sample interval after
\* the end of the searched range that was left, and at the end of the scan
\* every sample time is in one of the searched ranges or less than one
\* sample interval after the end of one.
C29_NoGap ==
    /\ pc = "while" => tt1 <= tt2 + dt_EQT
    /\ pc = "done" =>
        \A t \in SampleTimes : \E w \in searched : w[1] <= t /\ t < w[2] + dt_EQT

\* the scan ended; a sample of a station is in none of the searched ranges
C29_Witness ==
    /\ pc = "done"
    /\ Cardinality(searched) >= 2
    /\ \E t \in SampleTimes : \A w \in searched : ~(w[1] <= t /\ t <= w[2])

\* ---- the order of the stations ----
\* C30: the call with the station folders in another order outputs the
\* same events, with the same start, end and number of stations.
C30_OrderIndependent ==
    (first.done /\ pc = "done") => Summary(events) = first.events
====
